---- MODULE Spec2Model ----
(***************************************************************************)
(* Model of src/main.py: generate_calendar and the per-day moon ring       *)
(* (get_illum_waxing, get_lunar_color, draw_moon_ring).                    *)
(*                                                                         *)
(* Instants are whole hours counted from 0001-01-01 00:00 UTC times 24     *)
(* (ordinal * 24), illuminated fractions are integers in units of          *)
(* 1/IllumScale.  The three libraries the program calls (skyfield,         *)
(* lunardate, Pillow) are modelled by their observable contract at the     *)
(* call site.                                                              *)
(***************************************************************************)
EXTENDS Integers, Sequences, FiniteSets

\* ------------------------------------------------------------------------
\* Bounds of the model
\* ------------------------------------------------------------------------
\* resolution of an illuminated fraction: illum / IllumScale is in [0, 1]
IllumScale == 1000

\* years given to --year: the one before the lunar table starts, a leap
\* year, a common year, the year the ephemeris ends in
Years == {1900, 2024, 2025, 2053}

\* offsets given to --tz
TzOffsets == {-6, 0, 7}

\* ------------------------------------------------------------------------
\* Constants of main.py
\* ------------------------------------------------------------------------
PADDING == 100
PSTART == 400
HSPACE == 680
WSPACE == 791
ASPACE == WSPACE \div 7
WGAP == PADDING \div 2
DGAP_OFFSET == 20
BGAP == 80
FZ_MONTH == 80
FZ_WEEK == 40
RING_RADIUS == 30
RING_DY == 33

COLOR_BLACK == "black"
COLOR_YELLOW == "yellow"
COLOR_GRAY_BORDER == "gray_border"
COLOR_LUNAR_NEW_MOON == "lunar_new_moon"
COLOR_LUNAR_FULL_MOON == "lunar_full_moon"
COLOR_NONE == "None"

\* ------------------------------------------------------------------------
\* The proleptic Gregorian calendar (datetime / calendar of the standard
\* library, as used by lines 58, 131, 189, 205)
\* ------------------------------------------------------------------------
IsLeap(y) == (y % 4 = 0) /\ ((y % 100 # 0) \/ (y % 400 = 0))

DaysInMonth(y, m) ==
    IF m = 2 THEN (IF IsLeap(y) THEN 29 ELSE 28)
    ELSE IF m \in {4, 6, 9, 11} THEN 30 ELSE 31

DaysBeforeYear(y) ==
    LET p == y - 1 IN p * 365 + (p \div 4) - (p \div 100) + (p \div 400)

RECURSIVE DaysBeforeMonth(_, _)
DaysBeforeMonth(y, m) ==
    IF m = 1 THEN 0 ELSE DaysBeforeMonth(y, m - 1) + DaysInMonth(y, m - 1)

\* date.toordinal(): 0001-01-01 is day 1
ymd2ord(y, m, d) == DaysBeforeYear(y) + DaysBeforeMonth(y, m) + d

\* date.fromordinal(), by the 400/100/4/1-year cycles as datetime does
ord2ymd(n) ==
    LET n0   == n - 1
        n400 == n0 \div 146097
        r400 == n0 % 146097
        n100 == r400 \div 36524
        r100 == r400 % 36524
        n4   == r100 \div 1461
        r4   == r100 % 1461
        n1   == r4 \div 365
        r1   == r4 % 365
        y    == n400 * 400 + 1 + n100 * 100 + n4 * 4 + n1
    IN  IF n1 = 4 \/ n100 = 4
        THEN [year |-> y - 1, month |-> 12, day |-> 31]
        ELSE LET m == CHOOSE k \in 1..12 :
                        /\ DaysBeforeMonth(y, k) <= r1
                        /\ r1 < DaysBeforeMonth(y, k) + DaysInMonth(y, k)
             IN  [year |-> y, month |-> m, day |-> r1 - DaysBeforeMonth(y, m) + 1]

\* calendar.weekday(): Monday is 0
weekday(y, m, d) == (ymd2ord(y, m, d) + 6) % 7

\* calendar.Calendar(calendar.SUNDAY)
firstweekday == 6

\* Calendar.itermonthdates: the days of the previous month that fill the
\* first week, and of the next month that fill the last
days_before(y, m) == (weekday(y, m, 1) - firstweekday) % 7
days_after(y, m) == (firstweekday - weekday(y, m, 1) - DaysInMonth(y, m)) % 7

\* number of weeks of data[r][m]
NumWeeks(y, m) == (days_before(y, m) + DaysInMonth(y, m) + days_after(y, m)) \div 7

\* data[r_index][m_index][w_index][d_index] of yeardatescalendar(year, 4)
GridDate(y, r, m, w, d) ==
    LET mon == r * 4 + m + 1
    IN  ord2ymd(ymd2ord(y, mon, 1) - days_before(y, mon) + 7 * w + d)

\* ------------------------------------------------------------------------
\* datetime with a fixed-offset tzinfo (lines 108, 205-210)
\* ------------------------------------------------------------------------
MakeDatetime(y, m, d, off) == [year |-> y, month |-> m, day |-> d, tzinfo |-> off]

\* PlusOneDay that builds the next day without the tzinfo
PlusOneDayNaive(dt) ==
    LET nxt == ord2ymd(ymd2ord(dt.year, dt.month, dt.day) + 1)
    IN  MakeDatetime(nxt.year, nxt.month, nxt.day, 0)

\* date + timedelta(days=1) (line 58): wall-clock arithmetic, tzinfo kept
PlusOneDay(dt) ==
    LET nxt == ord2ymd(ymd2ord(dt.year, dt.month, dt.day) + 1)
    IN  MakeDatetime(nxt.year, nxt.month, nxt.day, dt.tzinfo)

\* ts.from_datetime(date) (lines 57-58): the absolute instant of local
\* midnight, in hours UTC
from_datetime(dt) == ymd2ord(dt.year, dt.month, dt.day) * 24 - dt.tzinfo

\* ------------------------------------------------------------------------
\* skyfield with de421.bsp (lines 12-16, 60-61)
\* ------------------------------------------------------------------------
\* de421.bsp covers 1899-07-29 .. 2053-10-09; a query outside raises
EphemerisCovers(T) ==
    /\ ymd2ord(1899, 7, 29) * 24 <= T
    /\ T <= ymd2ord(2053, 10, 9) * 24

\* earth.at(T).observe(moon).apparent().fraction_illuminated(sun), a value
\* in 0..IllumScale: 0 at the new moon of 2000-01-06 18h UTC, rising to
\* IllumScale half a synodic month (29.5 days) later and falling back
fraction_illuminated(T) ==
    LET synodic == 708
        phase   == (T - (ymd2ord(2000, 1, 6) * 24 + 18)) % synodic
    IN  IF 2 * phase <= synodic
        THEN (2 * phase * IllumScale) \div synodic
        ELSE (2 * (synodic - phase) * IllumScale) \div synodic

\* ------------------------------------------------------------------------
\* lunardate (line 68)
\* ------------------------------------------------------------------------
\* the table of lunardate starts at 1900-01-31 (lunar 1900-01-01) and ends
\* with lunar year 2099; a date outside raises ValueError
LunarCovers(y, m, d) ==
    /\ ymd2ord(1900, 1, 31) <= ymd2ord(y, m, d)
    /\ ymd2ord(y, m, d) < ymd2ord(2100, 1, 1)

\* LunarDate.fromSolarDate(y, m, d).day: months of 30 and 29 days in turn
LunarDayOfMonth(y, m, d) ==
    LET k == (ymd2ord(y, m, d) - ymd2ord(1900, 1, 31)) % 59
    IN  IF k < 30 THEN k + 1 ELSE k - 29

\* ------------------------------------------------------------------------
\* get_illum_waxing (lines 55-63)
\* ------------------------------------------------------------------------
\* get_illum_waxing that compares with >= and so calls equal samples waxing
get_illum_waxing_ge(date) ==
    LET t  == from_datetime(date)
        tn == from_datetime(PlusOneDay(date))
        illum      == fraction_illuminated(t)
        illum_next == fraction_illuminated(tn)
    IN  [t |-> t, tn |-> tn, illum |-> illum, waxing |-> illum_next >= illum]

get_illum_waxing(date) ==
    LET t  == from_datetime(date)
        tn == from_datetime(PlusOneDay(date))
        illum      == fraction_illuminated(t)
        illum_next == fraction_illuminated(tn)
    IN  [t |-> t, tn |-> tn, illum |-> illum, waxing |-> illum_next > illum]

\* the queries of lines 60-61 raise outside the ephemeris
illum_raises(date) ==
    \/ ~EphemerisCovers(from_datetime(date))
    \/ ~EphemerisCovers(from_datetime(PlusOneDay(date)))

\* ------------------------------------------------------------------------
\* get_lunar_color (lines 66-74)
\* ------------------------------------------------------------------------
\* get_lunar_color that looks up the UTC date of the instant instead of the
\* civil date
get_lunar_color_utc(date) ==
    LET utc == ord2ymd(from_datetime(date) \div 24)
        lunar_day == LunarDayOfMonth(utc.year, utc.month, utc.day)
    IN  IF lunar_day = 1 THEN COLOR_LUNAR_NEW_MOON
        ELSE IF lunar_day = 15 THEN COLOR_LUNAR_FULL_MOON
        ELSE COLOR_NONE

get_lunar_color(date) ==
    LET lunar_day == LunarDayOfMonth(date.year, date.month, date.day)
    IN  IF lunar_day = 1 THEN COLOR_LUNAR_NEW_MOON
        ELSE IF lunar_day = 15 THEN COLOR_LUNAR_FULL_MOON
        ELSE COLOR_NONE

lunar_raises(date) == ~LunarCovers(date.year, date.month, date.day)

\* ------------------------------------------------------------------------
\* draw_moon_ring (lines 77-94)
\* ------------------------------------------------------------------------
\* line 81
ring_bbox(cx, cy, radius) == <<cx - radius, cy - radius, cx + radius, cy + radius>>

\* line 82
ring_start == 0 - 90

\* ring_sweep that rounds to the nearest degree
ring_sweep_round(illum) == (2 * 360 * illum + IllumScale) \div (2 * IllumScale)

\* line 83: int(360 * illum) truncates
ring_sweep(illum) == (360 * illum) \div IllumScale

\* ring_end with the two directions exchanged
ring_end_swapped(start, sweep, waxing) ==
    IF waxing THEN start - sweep ELSE start + sweep

\* lines 85-88
ring_end(start, sweep, waxing) == IF waxing THEN start + sweep ELSE start - sweep

\* ring_layers that strokes the outline after the sweep arc
ring_layers_outline_last(bbox, start, end, ellipse_color) ==
    << [op |-> "ellipse", bbox |-> bbox, start |-> 0, end |-> 360,
        fill |-> ellipse_color, outline |-> COLOR_GRAY_BORDER, width |-> 2],
       [op |-> "arc", bbox |-> bbox, start |-> start, end |-> end,
        fill |-> COLOR_BLACK, outline |-> COLOR_NONE, width |-> 4],
       [op |-> "arc", bbox |-> bbox, start |-> 0, end |-> 360,
        fill |-> COLOR_YELLOW, outline |-> COLOR_NONE, width |-> 4] >>

\* lines 92-94: the three calls on the ImageDraw, in call order
ring_layers(bbox, start, end, ellipse_color) ==
    << [op |-> "ellipse", bbox |-> bbox, start |-> 0, end |-> 360,
        fill |-> ellipse_color, outline |-> COLOR_GRAY_BORDER, width |-> 2],
       [op |-> "arc", bbox |-> bbox, start |-> 0, end |-> 360,
        fill |-> COLOR_YELLOW, outline |-> COLOR_NONE, width |-> 4],
       [op |-> "arc", bbox |-> bbox, start |-> start, end |-> end,
        fill |-> COLOR_BLACK, outline |-> COLOR_NONE, width |-> 4] >>

\* ImageDraw.arc(bbox, start, end): angles are measured from 3 o'clock and
\* increase clockwise; the arc is stroked clockwise from start to end, a
\* whole circle when end - start >= 360, and otherwise through
\* (end - start) mod 360 degrees.  The result is the set of one-degree
\* segments [a, a+1) stroked, a in 0..359.
ArcStroked(start, end) ==
    IF end - start >= 360 THEN 0..359
    ELSE {(start + i) % 360 : i \in 0..(((end - start) % 360) - 1)}

\* ------------------------------------------------------------------------
\* generate_calendar (lines 97-239)
\* ------------------------------------------------------------------------
\* line 139
MonthIndex(r, m) == m + (r * 4) + 1

\* lines 142-143
BoxX1(m) == PADDING + (m * WGAP) + (m * WSPACE)
BoxY1(r) == PSTART + (r * HSPACE)

\* line 135
dgap == FZ_MONTH + FZ_WEEK + DGAP_OFFSET

\* lines 182, 186
DatePositionY1(r, w) == BoxY1(r) + dgap + (w * BGAP)
DatePositionX1(m, d) == BoxX1(m) + (d * ASPACE)

\* InOwnMonth that keeps every cell of the grid
InOwnMonthAlways(date, month_index) == date.month \in 1..12

\* line 189: the cell is kept when it is a day of the month of its box
InOwnMonth(date, month_index) == date.month = month_index

\* the day of the rendered year a date is: 1 for 1 January; below 1 or
\* above the length of the year for a cell of an adjacent year
DayKey(y, date) == ymd2ord(date.year, date.month, date.day) - ymd2ord(y, 1, 1) + 1
DayKeys == (0 - 6)..373
DaysInYear(y) == IF IsLeap(y) THEN 366 ELSE 365

VARIABLES
    year, tz_offset,        \* the arguments of generate_calendar
    pc,                     \* where generate_calendar is
    error,                  \* the exception that ended the run, or "none"
    r_index, m_index, w_index, d_index,   \* the four loop indices
    date_with_tz,           \* lines 205-210
    ring_center,            \* <<cx, cy>> passed to draw_moon_ring
    t, tn,                  \* the two instants of get_illum_waxing
    illum, waxing,          \* line 79
    sweep, end,             \* lines 83-88
    ellipse_color,          \* line 90
    ring_ops,               \* the draw calls of the current ring, in order
    n_illum, n_lunar, n_ring,   \* per day of the year: calls made so far
    n_draws,                \* calls made on the ImageDraw so far
    saved                   \* calendar.png has been written

cursor == <<r_index, m_index, w_index, d_index>>
ring_locals == <<t, tn, illum, waxing, sweep, end, ellipse_color>>
counts == <<n_illum, n_lunar, n_ring>>
vars == <<year, tz_offset, pc, error, cursor, date_with_tz, ring_center,
          ring_locals, ring_ops, counts, n_draws, saved>>

NoDatetime == MakeDatetime(0, 0, 0, 0)

Init ==
    /\ year \in Years
    /\ tz_offset \in TzOffsets
    /\ pc = "start"
    /\ error = "none"
    /\ r_index = 0 /\ m_index = 0 /\ w_index = 0 /\ d_index = 0
    /\ date_with_tz = NoDatetime
    /\ ring_center = <<0, 0>>
    /\ t = 0 /\ tn = 0 /\ illum = 0 /\ waxing = FALSE
    /\ sweep = 0 /\ end = 0
    /\ ellipse_color = COLOR_NONE
    /\ ring_ops = <<>>
    /\ n_illum = [k \in DayKeys |-> 0]
    /\ n_lunar = [k \in DayKeys |-> 0]
    /\ n_ring = [k \in DayKeys |-> 0]
    /\ n_draws = 0
    /\ saved = FALSE

\* the date in the cell the loops are at
CellDate == GridDate(year, r_index, m_index, w_index, d_index)

\* the loops of lines 137, 138, 181, 185 move on to the next cell, the next
\* month, the next row, or leave for line 239
NextCell ==
    IF d_index < 6
    THEN /\ d_index' = d_index + 1
         /\ pc' = "cell"
         /\ UNCHANGED <<r_index, m_index, w_index>>
    ELSE IF w_index + 1 < NumWeeks(year, MonthIndex(r_index, m_index))
    THEN /\ w_index' = w_index + 1
         /\ d_index' = 0
         /\ pc' = "cell"
         /\ UNCHANGED <<r_index, m_index>>
    ELSE IF m_index < 3
    THEN /\ m_index' = m_index + 1
         /\ pc' = "month"
         /\ UNCHANGED <<r_index, w_index, d_index>>
    ELSE IF r_index < 2
    THEN /\ r_index' = r_index + 1
         /\ m_index' = 0
         /\ pc' = "month"
         /\ UNCHANGED <<w_index, d_index>>
    ELSE /\ pc' = "save"
         /\ UNCHANGED cursor

\* Raise caught per cell: the error is noted and the loops move on
RaiseCaught(kind) ==
    /\ error' = kind
    /\ NextCell

\* an exception nothing catches: generate_calendar is left, line 239 is
\* not reached
Raise(kind) ==
    /\ pc' = "aborted"
    /\ error' = kind
    /\ UNCHANGED cursor

\* lines 104-135: the image, the context, the year text
Setup ==
    /\ pc = "start"
    /\ pc' = "month"
    /\ n_draws' = n_draws + 1
    /\ UNCHANGED <<year, tz_offset, error, cursor, date_with_tz, ring_center,
                   ring_locals, ring_ops, counts, saved>>

\* lines 138-179: the month name, the seven weekday letters, the line
MonthHeader ==
    /\ pc = "month"
    /\ pc' = "cell"
    /\ w_index' = 0
    /\ d_index' = 0
    /\ n_draws' = n_draws + 9
    /\ UNCHANGED <<year, tz_offset, error, r_index, m_index, date_with_tz,
                   ring_center, ring_locals, ring_ops, counts, saved>>

\* lines 185-190: a cell of an adjacent month
SkipCell ==
    /\ pc = "cell"
    /\ ~InOwnMonth(CellDate, MonthIndex(r_index, m_index))
    /\ NextCell
    /\ UNCHANGED <<year, tz_offset, error, date_with_tz, ring_center,
                   ring_locals, ring_ops, counts, n_draws, saved>>

\* lines 185-217 up to the call of draw_moon_ring: the weekend rectangle,
\* the datetime, the centre of the ring
EnterCell ==
    /\ pc = "cell"
    /\ InOwnMonth(CellDate, MonthIndex(r_index, m_index))
    /\ n_draws' = IF d_index \in {0, 6} THEN n_draws + 1 ELSE n_draws
    /\ date_with_tz' = MakeDatetime(CellDate.year, CellDate.month, CellDate.day,
                                    tz_offset)
    /\ ring_center' = <<DatePositionX1(m_index, d_index) + (ASPACE \div 2),
                        DatePositionY1(r_index, w_index) + RING_DY>>
    /\ ring_ops' = <<>>
    /\ pc' = "illum"
    /\ UNCHANGED <<year, tz_offset, error, cursor, ring_locals, counts, saved>>

\* lines 79-88: get_illum_waxing returns, the sweep and the end angle
RingIllum ==
    /\ pc = "illum"
    /\ ~illum_raises(date_with_tz)
    /\ LET got == get_illum_waxing(date_with_tz)
       IN  /\ t' = got.t
           /\ tn' = got.tn
           /\ illum' = got.illum
           /\ waxing' = got.waxing
           /\ sweep' = ring_sweep(got.illum)
           /\ end' = ring_end(ring_start, ring_sweep(got.illum), got.waxing)
    /\ n_illum' = [n_illum EXCEPT ![DayKey(year, date_with_tz)] = @ + 1]
    /\ pc' = "lunar"
    /\ UNCHANGED <<year, tz_offset, error, cursor, date_with_tz, ring_center,
                   ellipse_color, ring_ops, n_lunar, n_ring, n_draws, saved>>

\* line 79: get_illum_waxing raises
RingIllumRaise ==
    /\ pc = "illum"
    /\ illum_raises(date_with_tz)
    /\ t' = from_datetime(date_with_tz)
    /\ tn' = from_datetime(PlusOneDay(date_with_tz))
    /\ n_illum' = [n_illum EXCEPT ![DayKey(year, date_with_tz)] = @ + 1]
    /\ Raise("EphemerisRangeError")
    /\ UNCHANGED <<year, tz_offset, date_with_tz, ring_center, illum, waxing,
                   sweep, end, ellipse_color, ring_ops, n_lunar, n_ring,
                   n_draws, saved>>

\* line 90: get_lunar_color returns
RingLunar ==
    /\ pc = "lunar"
    /\ ~lunar_raises(date_with_tz)
    /\ ellipse_color' = get_lunar_color(date_with_tz)
    /\ n_lunar' = [n_lunar EXCEPT ![DayKey(year, date_with_tz)] = @ + 1]
    /\ pc' = "draw"
    /\ UNCHANGED <<year, tz_offset, error, cursor, date_with_tz, ring_center,
                   t, tn, illum, waxing, sweep, end, ring_ops, n_illum, n_ring,
                   n_draws, saved>>

\* line 90: get_lunar_color raises
RingLunarRaise ==
    /\ pc = "lunar"
    /\ lunar_raises(date_with_tz)
    /\ n_lunar' = [n_lunar EXCEPT ![DayKey(year, date_with_tz)] = @ + 1]
    /\ Raise("ValueError")
    /\ UNCHANGED <<year, tz_offset, date_with_tz, ring_center, ring_locals,
                   ring_ops, n_illum, n_ring, n_draws, saved>>

\* lines 92-94: the disk, the outline, the sweep arc
RingDraw ==
    /\ pc = "draw"
    /\ ring_ops' = ring_layers(ring_bbox(ring_center[1], ring_center[2], RING_RADIUS),
                               ring_start, end, ellipse_color)
    /\ n_ring' = [n_ring EXCEPT ![DayKey(year, date_with_tz)] = @ + 1]
    /\ n_draws' = n_draws + 3
    /\ pc' = "text"
    /\ UNCHANGED <<year, tz_offset, error, cursor, date_with_tz, ring_center,
                   ring_locals, n_illum, n_lunar, saved>>

\* lines 219-236: the day number; then the loops move on
DayText ==
    /\ pc = "text"
    /\ n_draws' = n_draws + 1
    /\ NextCell
    /\ UNCHANGED <<year, tz_offset, error, date_with_tz, ring_center,
                   ring_locals, ring_ops, counts, saved>>

\* line 239
Save ==
    /\ pc = "save"
    /\ saved' = TRUE
    /\ pc' = "done"
    /\ UNCHANGED <<year, tz_offset, error, cursor, date_with_tz, ring_center,
                   ring_locals, ring_ops, counts, n_draws>>

Next ==
    \/ Setup
    \/ MonthHeader
    \/ SkipCell
    \/ EnterCell
    \/ RingIllum
    \/ RingIllumRaise
    \/ RingLunar
    \/ RingLunarRaise
    \/ RingDraw
    \/ DayText
    \/ Save

Spec == Init /\ [][Next]_vars

\* ------------------------------------------------------------------------
\* Properties
\* ------------------------------------------------------------------------
\* draw_moon_ring has just made its three draw calls for date_with_tz
RingDrawn == pc = "text"

\* the black arc passed to ImageDraw.arc by the current ring
BlackArc == ring_ops[3]

Abs(x) == IF x < 0 THEN 0 - x ELSE x

\* C1 as stated: the sweep magnitude of the black arc is 360 * fraction
\* rounded to the nearest integer
C1_SweepIsRounded ==
    RingDrawn =>
        2 * Abs(360 * illum - Abs(BlackArc.end - BlackArc.start) * IllumScale)
            <= IllumScale

\* C1 amended: the sweep magnitude of the black arc is 360 * fraction
\* truncated to an integer (the largest integer not above 360 * fraction)
C1_SweepIsTruncated ==
    RingDrawn =>
        LET s == Abs(BlackArc.end - BlackArc.start)
        IN  /\ s * IllumScale <= 360 * illum
            /\ 360 * illum < (s + 1) * IllumScale

\* a ring whose 360 * fraction lies in the upper half of a degree
C1_Witness ==
    /\ RingDrawn
    /\ 2 * ((360 * illum) % IllumScale) > IllumScale
    /\ Abs(BlackArc.end - BlackArc.start) = (360 * illum) \div IllumScale

\* C2: the black arc starts at -90 and ends at start + sweep when waxing,
\* at start - sweep when not; it is the only black arc of the ring
C2_ArcAngles ==
    RingDrawn =>
        /\ BlackArc.start = 0 - 90
        /\ waxing => BlackArc.end = BlackArc.start + sweep
        /\ ~waxing => BlackArc.end = BlackArc.start - sweep
        /\ \A i \in 1..Len(ring_ops) :
              (ring_ops[i].op = "arc" /\ ring_ops[i].fill = COLOR_BLACK) => i = 3

\* a waning ring with a sweep that is neither empty nor whole
C2_Witness ==
    /\ RingDrawn
    /\ ~waxing
    /\ sweep > 0 /\ sweep < 360
    /\ BlackArc.end = 0 - 90 - sweep

\* the mirror image, about the vertical axis through the top point, of a set
\* of one-degree segments
Mirror(S) == {(270 + 359 - ((a - 270) % 360)) % 360 : a \in S}

\* C3: the arc stroked for a waning ring is the mirror image of the arc
\* stroked for a waxing ring of the same fraction: sweep degrees
\* counter-clockwise from the top
C3_WaningIsMirror ==
    (RingDrawn /\ ~waxing) =>
        /\ ArcStroked(BlackArc.start, BlackArc.end)
             = Mirror(ArcStroked(ring_start, ring_start + sweep))
        /\ Cardinality(ArcStroked(BlackArc.start, BlackArc.end)) = sweep

\* C4: at fraction 0 the black arc has no length, at fraction 1 it is the
\* whole circle, whatever waxing is
C4_Degenerate ==
    RingDrawn =>
        /\ illum = 0 => ArcStroked(BlackArc.start, BlackArc.end) = {}
        /\ illum = IllumScale => ArcStroked(BlackArc.start, BlackArc.end) = 0..359

\* C5: the fraction returned is the sample at T0, and waxing is returned
\* exactly when the sample at T1 is strictly greater
C5_IllumWaxing ==
    pc \in {"lunar", "draw", "text"} =>
        /\ illum = fraction_illuminated(t)
        /\ waxing <=> fraction_illuminated(tn) > fraction_illuminated(t)

\* two equal samples a day apart, reported as not waxing
C5_Witness ==
    /\ pc = "lunar"
    /\ fraction_illuminated(tn) = fraction_illuminated(t)
    /\ ~waxing

\* C6: the fill is the new-moon colour on lunar day 1, the full-moon colour
\* on lunar day 15 and none on any other lunar day of the civil date of the
\* cell, whatever the UTC offset
C6_LunarColor ==
    pc \in {"draw", "text"} =>
        LET lunar_day == LunarDayOfMonth(CellDate.year, CellDate.month, CellDate.day)
        IN  /\ lunar_day = 1 => ellipse_color = COLOR_LUNAR_NEW_MOON
            /\ lunar_day = 15 => ellipse_color = COLOR_LUNAR_FULL_MOON
            /\ lunar_day \notin {1, 15} => ellipse_color = COLOR_NONE
            /\ RingDrawn => ring_ops[1].fill = ellipse_color

\* a full-moon disk drawn under an offset east of Greenwich
C6_Witness ==
    /\ RingDrawn
    /\ tz_offset > 0
    /\ LunarDayOfMonth(CellDate.year, CellDate.month, CellDate.day) = 15
    /\ ring_ops[1].fill = COLOR_LUNAR_FULL_MOON

\* the civil date after a civil date, by the calendar
NextCivilDate(date) ==
    IF date.day < DaysInMonth(date.year, date.month)
    THEN [year |-> date.year, month |-> date.month, day |-> date.day + 1]
    ELSE IF date.month < 12
    THEN [year |-> date.year, month |-> date.month + 1, day |-> 1]
    ELSE [year |-> date.year + 1, month |-> 1, day |-> 1]

\* the instant of local midnight of a civil date under the offset of the run
LocalMidnight(date) == ymd2ord(date.year, date.month, date.day) * 24 - tz_offset

\* C7: when a day is sampled, T0 is its local midnight, T1 is 24 hours later
\* and is the local midnight of the next civil date, and from the second day
\* of the year on T0 is the T1 sampled for the day before
C7_SharedInstant ==
    [][pc = "illum" =>
         /\ t' = LocalMidnight(CellDate)
         /\ tn' = t' + 24
         /\ tn' = LocalMidnight(NextCivilDate(CellDate))
         /\ DayKey(year, CellDate) > 1 => t' = tn]_vars

\* the first day of March sampled under an offset that is not UTC
C7_Witness ==
    /\ pc = "lunar"
    /\ tz_offset # 0
    /\ date_with_tz.month = 3 /\ date_with_tz.day = 1
    /\ n_illum[DayKey(year, date_with_tz) - 1] = 1
    /\ tn = t + 24

\* C8: once a query has failed the run is over and nothing is written; the
\* file is written only after every day of the year has its ring
C8_AllOrNothing ==
    /\ error # "none" => (pc = "aborted" /\ ~saved)
    /\ saved =>
         /\ error = "none"
         /\ \A k \in 1..DaysInYear(year) : n_ring[k] = 1

\* a run aborted by the ephemeris after rings were drawn, with no file
C8_Witness ==
    /\ pc = "aborted"
    /\ error = "EphemerisRangeError"
    /\ n_ring[1] = 1
    /\ ~saved

\* C9: the layers of a ring are the disk, then the yellow outline from 0 to
\* 360, then the black sweep arc, all on the box centre +- radius
C9_LayerOrder ==
    /\ pc \in {"illum", "lunar", "draw"} => ring_ops = <<>>
    /\ RingDrawn =>
         /\ Len(ring_ops) = 3
         /\ ring_ops[1].op = "ellipse"
         /\ ring_ops[2].op = "arc"
         /\ ring_ops[2].fill = COLOR_YELLOW
         /\ ring_ops[2].start = 0 /\ ring_ops[2].end = 360
         /\ ring_ops[3].op = "arc"
         /\ ring_ops[3].fill = COLOR_BLACK
         /\ \A i \in 1..3 :
               ring_ops[i].bbox = <<ring_center[1] - 30, ring_center[2] - 30,
                                    ring_center[1] + 30, ring_center[2] + 30>>

\* a ring with a filled disk under its two arcs
C9_Witness ==
    /\ RingDrawn
    /\ Len(ring_ops) = 3
    /\ ring_ops[1].fill = COLOR_LUNAR_NEW_MOON
    /\ ring_ops[3].fill = COLOR_BLACK

\* the box of a month of the year
InBoxOfMonth(month, x, y) ==
    LET x1 == PADDING + ((month - 1) % 4) * (WGAP + WSPACE)
        y1 == PSTART + ((month - 1) \div 4) * HSPACE
    IN  /\ x1 <= x /\ x <= x1 + WSPACE
        /\ y1 <= y /\ y <= y1 + HSPACE

\* C10 on the states: for every day the ring is drawn at most once, after
\* its lunar lookup, after its illumination query; no cell of an adjacent
\* year is processed; a ring lies in the box of the month of its date; a run
\* that reaches the end has made each call once for each day of the year
C10_State ==
    /\ \A k \in DayKeys :
          /\ n_ring[k] <= n_lunar[k]
          /\ n_lunar[k] <= n_illum[k]
          /\ n_illum[k] <= 1
          /\ k \notin 1..DaysInYear(year) => n_illum[k] = 0
    /\ RingDrawn =>
          /\ date_with_tz.year = year
          /\ date_with_tz.month \in 1..12
          /\ \A i \in 1..Len(ring_ops) :
                /\ InBoxOfMonth(date_with_tz.month, ring_ops[i].bbox[1], ring_ops[i].bbox[2])
                /\ InBoxOfMonth(date_with_tz.month, ring_ops[i].bbox[3], ring_ops[i].bbox[4])
    /\ pc = "done" =>
          \A k \in 1..DaysInYear(year) :
              n_illum[k] = 1 /\ n_lunar[k] = 1 /\ n_ring[k] = 1

\* C10 on the steps: at a cell of an adjacent month or year nothing is
\* queried and nothing is drawn
C10_Step ==
    (pc = "cell" /\ CellDate.month # MonthIndex(r_index, m_index)) =>
        UNCHANGED <<counts, n_draws, ring_ops>>

\* C10: one run makes the illumination query, the lunar lookup and the ring
\* draw once for every day of the year, in that order, each ring in the box
\* of its own month, and skips the cells of adjacent months and years
\* without drawing
C10_OncePerDay == []C10_State /\ [][C10_Step]_vars

\* a finished leap year: 366 rings, the last one for 31 December
C10_Witness ==
    /\ pc = "done"
    /\ DaysInYear(year) = 366
    /\ n_ring[366] = 1
    /\ date_with_tz.month = 12 /\ date_with_tz.day = 31

====
